---------------------------- MODULE Spec2Model ----------------------------
(***************************************************************************)
(* Model of the analytics core of terra-metrics-dash:                      *)
(*   backend/inference.py            AgriculturalInference                 *)
(*   backend/main.py, main_simple.py the GET /api/ndvi handlers            *)
(*   backend/satellite_service.py    SatelliteService                      *)
(*   backend/sentinel_hub_service.py SentinelHubService                    *)
(*                                                                         *)
(* Numbers.  Sensor values are integers in tenths (temperature 20.0 is     *)
(* 200, pH 6.5 is 65).  Scores and yields are integers in hundredths, so   *)
(* that rounding to one decimal (Python's round(x, 1)) is visible.  A      *)
(* quantity that is a quotient in the code (a mean, a variance, a slope)   *)
(* is kept as an exact fraction <<numerator, denominator>> with a positive *)
(* denominator and compared by cross-multiplication.                       *)
(***************************************************************************)
EXTENDS Integers, Sequences, FiniteSets, TLC

VARIABLES
    models_dir,     \* the artifacts found under models_dir when the engine is constructed
    cnn_model,      \* AgriculturalInference.cnn_model: "None", "Loaded", "Placeholder"
    lstm_model,     \* AgriculturalInference.lstm_model: the same
    models_loaded,  \* AgriculturalInference.models_loaded
    last            \* the engine call main.py's handler is serving: its inputs and
                    \* its outcome, until the handler has answered

VARIABLES
    ndvi_request,   \* the NDVI request being served: handler, bounding box, outcome
    db              \* the rows of the ndvi_results table (models.py NDVIResult)

VARIABLES
    access_token,      \* SentinelHubService.access_token ("None" when unset)
    token_expires_at,  \* SentinelHubService.token_expires_at (-1 when unset)
    auth_requests,     \* POSTs sent to auth_url so far
    pc                 \* per calling thread: where it is in the service

inferenceVars == <<models_dir, cnn_model, lstm_model, models_loaded, last>>

ndviVars == <<ndvi_request, db>>

tokenVars == <<access_token, token_expires_at, auth_requests, pc>>

vars ==
    <<models_dir, cnn_model, lstm_model, models_loaded, last, ndvi_request, db,
      access_token, token_expires_at, auth_requests, pc>>

-----------------------------------------------------------------------------
(* Bounds of the model *)

\* Longest sensor-reading sequence handed to predict_field_health.
MaxReadings == 3

\* Most rows the ndvi_results table grows to.
MaxRows == 2

\* Threads that call one SentinelHubService concurrently.
NumCallers == 3

\* Most token requests sent to the auth endpoint.
MaxAuthRequests == 2

\* Most pixels of an array handed to get_ndvi_statistics on its own.
MaxPixels == 3

-----------------------------------------------------------------------------
(* Arithmetic helpers *)

Min(a, b) == IF a <= b THEN a ELSE b

Max(a, b) == IF a >= b THEN a ELSE b

\* Python's round(n / d, 0) for d > 0: nearest integer, ties to the even one.
RoundHalfEven(n, d) ==
    LET q == n \div d
        r == n % d
    IN  IF 2 * r < d THEN q
        ELSE IF 2 * r > d THEN q + 1
        ELSE IF q % 2 = 0 THEN q ELSE q + 1

RECURSIVE SumSeq(_)
SumSeq(s) == IF s = <<>> THEN 0 ELSE Head(s) + SumSeq(Tail(s))

\* Fractions <<n, d>>, d > 0.
FracLess(a, b) == a[1] * b[2] < b[1] * a[2]

FracEq(a, b) == a[1] * b[2] = b[1] * a[2]

FracAdd(a, b) == <<a[1] * b[2] + b[1] * a[2], a[2] * b[2]>>

FracSub(a, b) == <<a[1] * b[2] - b[1] * a[2], a[2] * b[2]>>

FracMul(a, b) == <<a[1] * b[1], a[2] * b[2]>>

\* a / n for an integer n > 0
FracOver(a, n) == <<a[1], a[2] * n>>

RECURSIVE FracSum(_)
FracSum(s) == IF s = <<>> THEN <<0, 1>> ELSE FracAdd(Head(s), FracSum(Tail(s)))

-----------------------------------------------------------------------------
(* Exceptions.  Every exception the engine's steps raise is a subclass of  *)
(* Python's Exception.                                                     *)

ExceptionSubclasses ==
    {"Exception", "ValueError", "AttributeError", "TypeError", "IndexError",
     "ScorerError"}

Ok(v) == [kind |-> "ok", value |-> v]

Raise(e) == [kind |-> "exc", exc |-> e]

-----------------------------------------------------------------------------
(* inference.py: model loading *)

\* What os.path.exists / keras.models.load_model find for one artifact.
ArtifactOutcomes == {"present", "absent", "corrupt"}

\* Lines 38-43 and 47-52: load the artifact when it exists, else build the
\* placeholder; load_model raises on an artifact that does not deserialize.
LoadOrPlaceholder(artifact) ==
    IF artifact = "present" THEN Ok("Loaded")
    ELSE IF artifact = "absent" THEN Ok("Placeholder")
    ELSE Raise("Exception")

\* A loader that keeps the engine loaded when only the LSTM artifact fails.
_load_models_per_scorer(cnn_artifact, lstm_artifact) ==
    LET cnn  == LoadOrPlaceholder(cnn_artifact)
        lstm == LoadOrPlaceholder(lstm_artifact)
    IN  IF cnn.kind = "exc"
        THEN [cnn_model |-> "None", lstm_model |-> "None", models_loaded |-> FALSE]
        ELSE IF lstm.kind = "exc"
        THEN [cnn_model |-> cnn.value, lstm_model |-> "None", models_loaded |-> TRUE]
        ELSE [cnn_model |-> cnn.value, lstm_model |-> lstm.value, models_loaded |-> TRUE]

\* __init__ sets both handles to None and models_loaded to False, then
\* _load_models runs: the CNN first, then the LSTM, inside one try block.
_load_models(cnn_artifact, lstm_artifact) ==
    LET cnn  == LoadOrPlaceholder(cnn_artifact)
        lstm == LoadOrPlaceholder(lstm_artifact)
    IN  IF cnn.kind = "exc"
        THEN [cnn_model |-> "None", lstm_model |-> "None", models_loaded |-> FALSE]
        ELSE IF lstm.kind = "exc"
        THEN [cnn_model |-> cnn.value, lstm_model |-> "None", models_loaded |-> FALSE]
        ELSE [cnn_model |-> cnn.value, lstm_model |-> lstm.value, models_loaded |-> TRUE]

-----------------------------------------------------------------------------
(* inference.py: sensor readings and feature extraction *)

\* dict.get(key, default)
Get(d, key, default) == IF key \in DOMAIN d THEN d[key] ELSE default

EmptyDict == [k \in {} |-> 0]

\* A reading is a dict of numbers ("dict"), a dict holding a value that is
\* no number ("nonnumeric"), or an object without .get ("object": main.py
\* hands over pydantic SensorReading instances).
DictReading(d) == [type |-> "dict", d |-> d]

Readings ==
    { DictReading([temperature |-> 220, humidity |-> 550, soil_moisture |-> 450,
                   ph_level |-> 65, timestamp |-> "2025-01-15T10:00"]),
      DictReading([temperature |-> 360, humidity |-> 850, soil_moisture |-> 250,
                   ph_level |-> 40, timestamp |-> "2025-01-15T10:30"]),
      DictReading([temperature |-> 520, soil_moisture |-> 650, ph_level |-> 90]),
      DictReading(EmptyDict),
      [type |-> "nonnumeric", d |-> [timestamp |-> "2025-01-15T11:00"]],
      [type |-> "object", d |-> EmptyDict] }

RECURSIVE SeqsUpTo(_, _)
SeqsUpTo(S, n) ==
    IF n = 0 THEN {<<>>}
    ELSE LET shorter == SeqsUpTo(S, n - 1)
         IN  shorter \cup {Append(s, x) : s \in shorter, x \in S}

SensorInputs == SeqsUpTo(Readings, MaxReadings)

\* [d.get(key, default) for d in sensor_data]
Column(sensor_data, key, default) ==
    [i \in 1..Len(sensor_data) |-> Get(sensor_data[i].d, key, default)]

SumSquares(s) == SumSeq([i \in 1..Len(s) |-> s[i] * s[i]])

\* np.mean of values in tenths.
Mean(s) == <<SumSeq(s), 10 * Len(s)>>

\* np.var (population variance) of values in tenths.
Var(s) ==
    <<Len(s) * SumSquares(s) - SumSeq(s) * SumSeq(s), 100 * Len(s) * Len(s)>>

\* np.clip(f, -1.0, 1.0)
Clip(f) ==
    IF FracLess(f, <<-1, 1>>) THEN <<-1, 1>>
    ELSE IF FracLess(<<1, 1>>, f) THEN <<1, 1>>
    ELSE f

\* A trend without the np.clip of line 307.
_calculate_trend_unclipped(values) ==
    IF Len(values) < 2 THEN <<0, 1>>
    ELSE LET n   == Len(values)
             sx  == SumSeq([i \in 1..n |-> i - 1])
             sxx == SumSeq([i \in 1..n |-> (i - 1) * (i - 1)])
             sxy == SumSeq([i \in 1..n |-> (i - 1) * values[i]])
             sy  == SumSeq(values)
         IN  <<n * sxy - sx * sy, 100 * (n * sxx - sx * sx)>>

\* Least-squares slope of the values (tenths) against the index 0..n-1,
\* np.polyfit(x, values, 1)[0], divided by 10 and clipped.
_calculate_trend(values) ==
    IF Len(values) < 2 THEN <<0, 1>>
    ELSE LET n   == Len(values)
             sx  == SumSeq([i \in 1..n |-> i - 1])
             sxx == SumSeq([i \in 1..n |-> (i - 1) * (i - 1)])
             sxy == SumSeq([i \in 1..n |-> (i - 1) * values[i]])
             sy  == SumSeq(values)
         IN  Clip(<<n * sxy - sx * sy, 100 * (n * sxx - sx * sx)>>)

\* ph_stability is 1.0 / (np.std(ph) + 0.1), which has a square root in it; the
\* feature is carried as the variance v it is computed from, and stands
\* for 1 / (sqrt(v) + 0.1).  The default 1.0 of features.get("ph_stability", 1.0)
\* is v = 0.81.
PhStabilityDefault == <<81, 100>>

\* ph_stability < 0.5  <=>  sqrt(v) + 0.1 > 2  <=>  v > 3.61
PhStabilityBelowHalf(v) == FracLess(<<361, 100>>, v)

\* Lines 182-202.  The four list comprehensions run first (.get on every
\* reading), then numpy on the columns.
_extract_health_features(sensor_data) ==
    IF sensor_data = <<>> THEN Ok(EmptyDict)
    ELSE IF \E i \in 1..Len(sensor_data) : sensor_data[i].type = "object"
    THEN Raise("AttributeError")
    ELSE IF \E i \in 1..Len(sensor_data) : sensor_data[i].type = "nonnumeric"
    THEN Raise("TypeError")
    ELSE LET temperatures   == Column(sensor_data, "temperature", 200)
             humidities     == Column(sensor_data, "humidity", 500)
             soil_moistures == Column(sensor_data, "soil_moisture", 400)
             ph_levels      == Column(sensor_data, "ph_level", 65)
         IN  Ok([avg_temperature   |-> Mean(temperatures),
                 avg_humidity      |-> Mean(humidities),
                 avg_soil_moisture |-> Mean(soil_moistures),
                 avg_ph            |-> Mean(ph_levels),
                 temp_variance     |-> Var(temperatures),
                 humidity_variance |-> Var(humidities),
                 moisture_trend    |-> _calculate_trend(soil_moistures),
                 ph_stability      |-> Var(ph_levels)])

-----------------------------------------------------------------------------
(* inference.py: rules *)

\* A rule set that evaluates the moisture rule before the score rule.
_generate_health_recommendations_reordered(health_score, features) ==
    LET r1 == IF health_score < 7000
              THEN <<"Immediate intervention required", "Increase monitoring frequency">>
              ELSE <<>>
        r2 == IF FracLess(Get(features, "avg_soil_moisture", <<50, 1>>), <<40, 1>>)
              THEN <<"Increase irrigation">> ELSE <<>>
        r3 == IF \/ FracLess(Get(features, "avg_ph", <<65, 10>>), <<6, 1>>)
                 \/ FracLess(<<7, 1>>, Get(features, "avg_ph", <<65, 10>>))
              THEN <<"Adjust soil pH levels">> ELSE <<>>
        r4 == IF FracLess(<<50, 1>>, Get(features, "temp_variance", <<0, 1>>))
              THEN <<"Monitor temperature stability">> ELSE <<>>
        recommendations == r2 \o r1 \o r3 \o r4
    IN  IF recommendations = <<>>
        THEN <<"Field conditions are optimal", "Continue current management practices">>
        ELSE recommendations

\* A rule set without the default of lines 250-252.
_generate_health_recommendations_no_default(health_score, features) ==
    LET r1 == IF health_score < 7000
              THEN <<"Immediate intervention required", "Increase monitoring frequency">>
              ELSE <<>>
        r2 == IF FracLess(Get(features, "avg_soil_moisture", <<50, 1>>), <<40, 1>>)
              THEN <<"Increase irrigation">> ELSE <<>>
        r3 == IF \/ FracLess(Get(features, "avg_ph", <<65, 10>>), <<6, 1>>)
                 \/ FracLess(<<7, 1>>, Get(features, "avg_ph", <<65, 10>>))
              THEN <<"Adjust soil pH levels">> ELSE <<>>
        r4 == IF FracLess(<<50, 1>>, Get(features, "temp_variance", <<0, 1>>))
              THEN <<"Monitor temperature stability">> ELSE <<>>
    IN  r1 \o r2 \o r3 \o r4

\* Lines 233-254.  health_score in hundredths.
_generate_health_recommendations(health_score, features) ==
    LET r1 == IF health_score < 7000
              THEN <<"Immediate intervention required", "Increase monitoring frequency">>
              ELSE <<>>
        r2 == IF FracLess(Get(features, "avg_soil_moisture", <<50, 1>>), <<40, 1>>)
              THEN <<"Increase irrigation">> ELSE <<>>
        r3 == IF \/ FracLess(Get(features, "avg_ph", <<65, 10>>), <<6, 1>>)
                 \/ FracLess(<<7, 1>>, Get(features, "avg_ph", <<65, 10>>))
              THEN <<"Adjust soil pH levels">> ELSE <<>>
        r4 == IF FracLess(<<50, 1>>, Get(features, "temp_variance", <<0, 1>>))
              THEN <<"Monitor temperature stability">> ELSE <<>>
        recommendations == r1 \o r2 \o r3 \o r4
    IN  IF recommendations = <<>>
        THEN <<"Field conditions are optimal", "Continue current management practices">>
        ELSE recommendations

\* A rule set whose water-stress rule shares the threshold of the
\* irrigation recommendation.
_identify_risk_factors_shared_threshold(features) ==
    (IF FracLess(<<30, 1>>, Get(features, "avg_temperature", <<20, 1>>))
     THEN <<"High temperature stress">> ELSE <<>>)
    \o (IF FracLess(<<80, 1>>, Get(features, "avg_humidity", <<50, 1>>))
        THEN <<"High humidity - disease risk">> ELSE <<>>)
    \o (IF FracLess(Get(features, "avg_soil_moisture", <<50, 1>>), <<40, 1>>)
        THEN <<"Water stress">> ELSE <<>>)
    \o (IF PhStabilityBelowHalf(Get(features, "ph_stability", PhStabilityDefault))
        THEN <<"Unstable soil pH">> ELSE <<>>)

\* Lines 256-272.
_identify_risk_factors(features) ==
    (IF FracLess(<<30, 1>>, Get(features, "avg_temperature", <<20, 1>>))
     THEN <<"High temperature stress">> ELSE <<>>)
    \o (IF FracLess(<<80, 1>>, Get(features, "avg_humidity", <<50, 1>>))
        THEN <<"High humidity - disease risk">> ELSE <<>>)
    \o (IF FracLess(Get(features, "avg_soil_moisture", <<50, 1>>), <<30, 1>>)
        THEN <<"Water stress">> ELSE <<>>)
    \o (IF PhStabilityBelowHalf(Get(features, "ph_stability", PhStabilityDefault))
        THEN <<"Unstable soil pH">> ELSE <<>>)

-----------------------------------------------------------------------------
(* inference.py: predict_field_health *)

\* cnn_model.predict on the synthetic image, times 100, in hundredths.  The
\* image comes from np.random.rand, so the score is an input of the model.
\* The placeholder network ends in a sigmoid: its score lies in [0, 100].
PlaceholderScores == {0, 5520, 6996, 7004, 9650, 10000}

\* A loaded artifact is any network: its output need not be a probability,
\* and predict raises when the artifact does not accept a 64x64x3 image.
LoadedScores == PlaceholderScores \cup {-250, 10430}

ScorerOutcomes(model) ==
    IF model = "Placeholder" THEN {Ok(h) : h \in PlaceholderScores}
    ELSE IF model = "Loaded"
    THEN {Ok(h) : h \in LoadedScores} \cup {Raise("ScorerError")}
    ELSE {Raise("AttributeError")}

\* Lines 131-137: the fallback prediction (scores in tenths).
HealthFallbackInRange ==
    [health_score    |-> 750,
     confidence      |-> 700,
     recommendations |-> <<"Monitor field conditions closely", "Check sensor readings">>,
     risk_factors    |-> <<"Data processing error">>,
     timestamp       |-> ""]

HealthFallback ==
    [health_score    |-> 750,
     confidence      |-> 600,
     recommendations |-> <<"Monitor field conditions closely", "Check sensor readings">>,
     risk_factors    |-> <<"Data processing error">>,
     timestamp       |-> ""]

\* Line 122: round(min(95, max(70, health_score)), 1), in tenths.
HealthConfidenceUnclamped(health_score) == RoundHalfEven(health_score, 10)

HealthConfidence(health_score) ==
    RoundHalfEven(Min(9500, Max(7000, health_score)), 10)

\* Lines 99-126: the body of the try block.  scorer is what cnn_model.predict
\* does on this call.
HealthBody(sensor_data, scorer) ==
    IF ~models_loaded THEN Raise("Exception")
    ELSE IF sensor_data = <<>> THEN Raise("ValueError")
    ELSE LET features == _extract_health_features(sensor_data)
         IN  IF features.kind = "exc" THEN features
             ELSE IF scorer.kind = "exc" THEN scorer
             ELSE LET health_score == scorer.value
                  IN  Ok([health_score    |-> RoundHalfEven(health_score, 10),
                          confidence      |-> HealthConfidence(health_score),
                          recommendations |->
                              _generate_health_recommendations(health_score,
                                                               features.value),
                          risk_factors    |-> _identify_risk_factors(features.value),
                          timestamp       |->
                              Get(sensor_data[Len(sensor_data)].d, "timestamp", "")])

\* Line 128: except Exception as e.
HealthHandlerCatchesValueError(exc) == exc = "ValueError"

HealthHandlerCatches(exc) == exc \in ExceptionSubclasses

\* Lines 88-137: what the caller of predict_field_health gets.
predict_field_health(sensor_data, scorer) ==
    LET body == HealthBody(sensor_data, scorer)
    IN  IF body.kind = "ok"
        THEN [outcome |-> "returned", path |-> "computed", value |-> body.value]
        ELSE IF HealthHandlerCatches(body.exc)
        THEN [outcome |-> "returned", path |-> "fallback", value |-> HealthFallback,
              logged |-> body.exc]
        ELSE [outcome |-> "raised", path |-> "raised", exc |-> body.exc]

-----------------------------------------------------------------------------
(* inference.py: predict_yield *)

GrowthKeys ==
    {"historical_data", "weather_data", "soil_quality", "pest_pressure",
     "nutrient_levels"}

\* growth_data: a dict with some of the known top-level keys, or a value that
\* is no container (None).
GrowthInputs ==
    {[type |-> "dict", keys |-> K] : K \in SUBSET GrowthKeys}
        \cup {[type |-> "none", keys |-> {}]}

\* key in growth_data
HasKey(growth_data, key) ==
    IF growth_data.type = "dict" THEN Ok(key \in growth_data.keys)
    ELSE Raise("TypeError")

\* Lines 217-231: a random time series; the historical data is looked for
\* and not used.
_process_growth_data(growth_data) ==
    LET has == HasKey(growth_data, "historical_data")
    IN  IF has.kind = "exc" THEN has ELSE Ok("time_series")

\* lstm_model.predict, in hundredths.  Both the placeholder and a loaded
\* network end in a linear layer; the input is np.random.rand.
YieldOutputs == {-320, 0, 4210, 7996, 8000, 8500, 10450, 12075}

ForecasterOutcomes(model) ==
    IF model = "Placeholder" THEN {Ok(y) : y \in YieldOutputs}
    ELSE IF model = "Loaded"
    THEN {Ok(y) : y \in YieldOutputs} \cup {Raise("ScorerError")}
    ELSE {Raise("AttributeError")}

\* A factor analysis that looks at the soil before the weather.
_analyze_yield_factors_soil_first(growth_data) ==
    LET factors ==
            (IF "soil_quality" \in growth_data.keys
             THEN <<"Soil quality">> ELSE <<>>)
            \o (IF "weather_data" \in growth_data.keys
                THEN <<"Weather conditions">> ELSE <<>>)
            \o (IF "pest_pressure" \in growth_data.keys
                THEN <<"Pest pressure">> ELSE <<>>)
            \o (IF "nutrient_levels" \in growth_data.keys
                THEN <<"Nutrient availability">> ELSE <<>>)
    IN  IF growth_data.type # "dict" THEN Raise("TypeError")
        ELSE IF factors = <<>>
        THEN Ok(<<"Weather conditions", "Soil quality", "Pest pressure",
                  "Management practices">>)
        ELSE Ok(factors)

\* Lines 274-295.
_analyze_yield_factors(growth_data) ==
    LET factors ==
            (IF "weather_data" \in growth_data.keys
             THEN <<"Weather conditions">> ELSE <<>>)
            \o (IF "soil_quality" \in growth_data.keys
                THEN <<"Soil quality">> ELSE <<>>)
            \o (IF "pest_pressure" \in growth_data.keys
                THEN <<"Pest pressure">> ELSE <<>>)
            \o (IF "nutrient_levels" \in growth_data.keys
                THEN <<"Nutrient availability">> ELSE <<>>)
    IN  IF growth_data.type # "dict" THEN Raise("TypeError")
        ELSE IF factors = <<>>
        THEN Ok(<<"Weather conditions", "Soil quality", "Pest pressure",
                  "Management practices">>)
        ELSE Ok(factors)

\* Lines 309-312.
_calculate_yield_trend(growth_data) == "stable"

InSeq(x, s) == \E i \in 1..Len(s) : s[i] = x

\* A rule set whose yield rule fires at 80 as well.
_generate_yield_recommendations_inclusive(predicted_yield, key_factors) ==
    LET recommendations ==
            (IF predicted_yield <= 8000
             THEN <<"Optimize irrigation schedule", "Review fertilizer application">>
             ELSE <<>>)
            \o (IF InSeq("Weather conditions", key_factors)
                THEN <<"Monitor weather forecasts closely">> ELSE <<>>)
            \o (IF InSeq("Pest pressure", key_factors)
                THEN <<"Implement integrated pest management">> ELSE <<>>)
    IN  IF recommendations = <<>>
        THEN <<"Continue current practices", "Monitor for optimization opportunities">>
        ELSE recommendations

\* Lines 314-332.  predicted_yield in hundredths.
_generate_yield_recommendations(predicted_yield, key_factors) ==
    LET recommendations ==
            (IF predicted_yield < 8000
             THEN <<"Optimize irrigation schedule", "Review fertilizer application">>
             ELSE <<>>)
            \o (IF InSeq("Weather conditions", key_factors)
                THEN <<"Monitor weather forecasts closely">> ELSE <<>>)
            \o (IF InSeq("Pest pressure", key_factors)
                THEN <<"Implement integrated pest management">> ELSE <<>>)
    IN  IF recommendations = <<>>
        THEN <<"Continue current practices", "Monitor for optimization opportunities">>
        ELSE recommendations

\* Lines 174-180: the fallback prediction (yield and confidence in tenths).
YieldFallback ==
    [yield_per_hectare |-> 850,
     confidence        |-> 600,
     key_factors       |-> <<"Weather conditions", "Soil quality", "Pest pressure">>,
     trend             |-> "stable",
     recommendations   |-> <<"Optimize irrigation", "Monitor soil nutrients">>]

\* Lines 150-169: the body of the try block.  predicted_yield * 0.8 is in
\* thousandths.
YieldBody(growth_data, forecaster) ==
    IF ~models_loaded THEN Raise("Exception")
    ELSE LET time_series_data == _process_growth_data(growth_data)
             key_factors      == _analyze_yield_factors(growth_data)
         IN  IF time_series_data.kind = "exc" THEN time_series_data
             ELSE IF forecaster.kind = "exc" THEN forecaster
             ELSE IF key_factors.kind = "exc" THEN key_factors
             ELSE LET predicted_yield == forecaster.value
                  IN  Ok([yield_per_hectare |-> RoundHalfEven(predicted_yield, 10),
                          confidence        |->
                              RoundHalfEven(Min(90000, Max(65000, 8 * predicted_yield)),
                                            100),
                          key_factors       |-> key_factors.value,
                          trend             |-> _calculate_yield_trend(growth_data),
                          recommendations   |->
                              _generate_yield_recommendations(predicted_yield,
                                                              key_factors.value)])

\* Line 171: except Exception as e.
YieldHandlerCatchesBareException(exc) == exc = "Exception"

YieldHandlerCatches(exc) == exc \in ExceptionSubclasses

\* Lines 139-180: what the caller of predict_yield gets.
predict_yield(growth_data, forecaster) ==
    LET body == YieldBody(growth_data, forecaster)
    IN  IF body.kind = "ok"
        THEN [outcome |-> "returned", path |-> "computed", value |-> body.value]
        ELSE IF YieldHandlerCatches(body.exc)
        THEN [outcome |-> "returned", path |-> "fallback", value |-> YieldFallback,
              logged |-> body.exc]
        ELSE [outcome |-> "raised", path |-> "raised", exc |-> body.exc]

\* Lines 334-341.
get_model_info ==
    [models_loaded        |-> models_loaded,
     cnn_model_available  |-> cnn_model # "None",
     lstm_model_available |-> lstm_model # "None"]

-----------------------------------------------------------------------------
(* The engine as a state machine *)

NoCall == [op |-> "none"]

\* AgriculturalInference(): the state after __init__.
InitInference ==
    \E cnn_artifact \in ArtifactOutcomes, lstm_artifact \in ArtifactOutcomes :
        LET loaded == _load_models(cnn_artifact, lstm_artifact)
        IN  /\ models_dir = [cnn |-> cnn_artifact, lstm |-> lstm_artifact]
            /\ cnn_model = loaded.cnn_model
            /\ lstm_model = loaded.lstm_model
            /\ models_loaded = loaded.models_loaded
            /\ last = NoCall

\* A predict_field_health that retries a failed load, building placeholders.
PredictFieldHealthRetrying ==
    \E sensor_data \in SensorInputs, scorer \in ScorerOutcomes(cnn_model) :
        LET retried == _load_models("absent", "absent")
        IN  /\ last = NoCall
            /\ last' = [op          |-> "predict_field_health",
                        sensor_data |-> sensor_data,
                        scorer      |-> scorer,
                        result      |-> predict_field_health(sensor_data, scorer)]
            /\ cnn_model' = IF models_loaded THEN cnn_model ELSE retried.cnn_model
            /\ lstm_model' = IF models_loaded THEN lstm_model ELSE retried.lstm_model
            /\ models_loaded' = (models_loaded \/ retried.models_loaded)
            /\ UNCHANGED <<models_dir, ndviVars, tokenVars>>

\* main.py's handlers are coroutines that call the engine synchronously: a
\* call runs to its end, and the handler answers, before the next one starts.
PredictFieldHealth ==
    \E sensor_data \in SensorInputs, scorer \in ScorerOutcomes(cnn_model) :
        /\ last = NoCall
        /\ last' = [op          |-> "predict_field_health",
                    sensor_data |-> sensor_data,
                    scorer      |-> scorer,
                    result      |-> predict_field_health(sensor_data, scorer)]
        /\ UNCHANGED <<models_dir, cnn_model, lstm_model, models_loaded, ndviVars, tokenVars>>

PredictYield ==
    \E growth_data \in GrowthInputs, forecaster \in ForecasterOutcomes(lstm_model) :
        /\ last = NoCall
        /\ last' = [op          |-> "predict_yield",
                    growth_data |-> growth_data,
                    forecaster  |-> forecaster,
                    result      |-> predict_yield(growth_data, forecaster)]
        /\ UNCHANGED <<models_dir, cnn_model, lstm_model, models_loaded, ndviVars, tokenVars>>

\* The handler has answered a predict_yield call and the same growth_data is
\* submitted again, to the same forecaster: a network that rejects the input
\* shape rejects it on every call, and otherwise its output follows the time
\* series _process_growth_data draws for this call.  The record keeps the
\* previous answer beside the new one.
PredictYieldAgain ==
    \E forecaster \in ForecasterOutcomes(lstm_model) :
        /\ last.op = "predict_yield"
        /\ "previous" \notin DOMAIN last
        /\ forecaster.kind = last.forecaster.kind
        /\ last' = [op          |-> "predict_yield",
                    growth_data |-> last.growth_data,
                    forecaster  |-> forecaster,
                    result      |-> predict_yield(last.growth_data, forecaster),
                    previous    |-> last.result]
        /\ UNCHANGED <<models_dir, cnn_model, lstm_model, models_loaded, ndviVars, tokenVars>>

GetModelInfo ==
    /\ last = NoCall
    /\ last' = [op |-> "get_model_info", result |-> get_model_info]
    /\ UNCHANGED <<models_dir, cnn_model, lstm_model, models_loaded, ndviVars, tokenVars>>

\* The handler builds its response from the result and returns.
Respond ==
    /\ last # NoCall
    /\ last' = NoCall
    /\ UNCHANGED <<models_dir, cnn_model, lstm_model, models_loaded, ndviVars, tokenVars>>

-----------------------------------------------------------------------------
(* Exceptions of the NDVI path.  str(e) of an HTTPException is              *)
(* "<status_code>: <detail>"; for the others it is the message.             *)

HTTPException(status_code, detail) ==
    [class |-> "HTTPException", status_code |-> status_code, detail |-> detail]

PyException(class, message) ==
    [class |-> class, status_code |-> 0, detail |-> message]

\* isinstance(e, ValueError): HTTPException and NameError derive from
\* Exception, not from ValueError.
IsValueError(e) == e.class = "ValueError"

\* isinstance(e, Exception)
IsException(e) == e.class \in {"Exception", "ValueError", "NameError", "HTTPException"}

-----------------------------------------------------------------------------
(* satellite_service.py *)

\* One pixel of the two-band input: B04 (red) and B08 (near infrared), DN.
Sample(B04, B08) == [B04 |-> B04, B08 |-> B08]

\* The band rasters the provider has for a bounding box, row by row.
BandInputs ==
    { <<Sample(0, 0)>>,
      <<Sample(2, 6), Sample(0, 0)>>,
      <<Sample(1, 3), Sample(3, 1), Sample(2, 2)>> }

FinitePixel(v) == [finite |-> TRUE, v |-> v]

\* Lines 77-88, the evalscript of SatelliteService: (B08 - B04) / (B08 + B04),
\* and [0] when the quotient is NaN or infinite.
evaluatePixel(sample) ==
    IF sample.B08 + sample.B04 = 0 THEN FinitePixel(<<0, 1>>)
    ELSE FinitePixel(<<sample.B08 - sample.B04, sample.B08 + sample.B04>>)

EvalRaster(bands) == [i \in 1..Len(bands) |-> evaluatePixel(bands[i])]

\* sentinel_hub_service.py lines 45-47, the evalscript of SentinelHubService:
\* the bare quotient.  The bands are not negative, so a zero denominator is
\* 0 / 0, which is NaN.
sentinel_hub_evaluatePixel(sample) ==
    IF sample.B08 + sample.B04 = 0 THEN [finite |-> FALSE, v |-> <<0, 0>>]
    ELSE FinitePixel(<<sample.B08 - sample.B04, sample.B08 + sample.B04>>)

\* What request.get_data() does: it raises (transport or authentication
\* failure), returns an empty list, or returns one raster.
ProviderOutcomes ==
    {[kind |-> "data", bands |-> bands, response |-> <<EvalRaster(bands)>>] :
         bands \in BandInputs}
        \cup {[kind |-> "data", bands |-> <<>>, response |-> <<>>],
              [kind |-> "error", bands |-> <<>>, response |-> <<>>]}

\* Lines 39-116.
fetch_ndvi_image_swallowing(bbox_coords, provider) ==
    IF Len(bbox_coords) # 4
    THEN Raise(PyException("ValueError", "bbox_coords must contain exactly 4 values"))
    ELSE IF provider.kind = "error" THEN Ok(<<>>)
    ELSE IF Len(provider.response) > 0 THEN Ok(provider.response[1])
    ELSE Ok(<<>>)

fetch_ndvi_image(bbox_coords, provider) ==
    IF Len(bbox_coords) # 4
    THEN Raise(PyException("ValueError", "bbox_coords must contain exactly 4 values"))
    ELSE IF provider.kind = "error"
    THEN Raise(PyException("Exception", "Failed to fetch satellite data"))
    ELSE IF Len(provider.response) > 0 THEN Ok(provider.response[1])
    ELSE Raise(PyException("Exception", "Failed to fetch satellite data"))

\* np.clip(ndvi_array, -1, 1), then ((v + 1) / 2 * 255).astype(np.uint8)
Intensity(v) ==
    LET c == Clip(v) IN (255 * (c[1] + c[2])) \div (2 * c[2])

\* Lines 118-141: the 8-bit intensities that the PNG encodes.
ndvi_to_png_base64(ndvi_array) ==
    [i \in 1..Len(ndvi_array) |-> Intensity(ndvi_array[i].v)]

IsFinite(pixel) == pixel.finite

RECURSIVE FracMin(_)
FracMin(s) ==
    IF Len(s) = 1 THEN s[1]
    ELSE LET m == FracMin(Tail(s)) IN IF FracLess(s[1], m) THEN s[1] ELSE m

RECURSIVE FracMax(_)
FracMax(s) ==
    IF Len(s) = 1 THEN s[1]
    ELSE LET m == FracMax(Tail(s)) IN IF FracLess(m, s[1]) THEN s[1] ELSE m

\* A float that is not finite, as a quotient by zero: 0/0 is NaN, 1/0 is inf.
NonFinitePixel(v) == [finite |-> FALSE, v |-> v]

\* The pixel values of the arrays handed to get_ndvi_statistics.
NdviPixels ==
    {FinitePixel(<<0, 1>>), FinitePixel(<<1, 2>>), FinitePixel(<<-1, 2>>),
     NonFinitePixel(<<0, 0>>), NonFinitePixel(<<1, 0>>)}

NdviArrays == SeqsUpTo(NdviPixels, MaxPixels)

\* Statistics whose degenerate case keeps np.mean of no value, which is NaN.
get_ndvi_statistics_nan_mean(ndvi_array) ==
    LET valid  == SelectSeq(ndvi_array, IsFinite)
        values == [i \in 1..Len(valid) |-> valid[i].v]
        mean   == FracOver(FracSum(values), Len(values))
        meansq == FracOver(FracSum([i \in 1..Len(values) |->
                                        FracMul(values[i], values[i])]),
                           Len(values))
    IN  IF Len(valid) = 0
        THEN [mean |-> mean, min |-> <<0, 1>>, max |-> <<0, 1>>, std |-> <<0, 1>>,
              valid_pixels |-> 0, total_pixels |-> Len(ndvi_array)]
        ELSE [mean |-> mean, min |-> FracMin(values), max |-> FracMax(values),
              std |-> FracSub(meansq, FracMul(mean, mean)),
              valid_pixels |-> Len(valid), total_pixels |-> Len(ndvi_array)]

\* Lines 143-173.  "std" is carried as its square, the population variance.
get_ndvi_statistics(ndvi_array) ==
    LET valid  == SelectSeq(ndvi_array, IsFinite)
        values == [i \in 1..Len(valid) |-> valid[i].v]
        mean   == FracOver(FracSum(values), Len(values))
        meansq == FracOver(FracSum([i \in 1..Len(values) |->
                                        FracMul(values[i], values[i])]),
                           Len(values))
    IN  IF Len(valid) = 0
        THEN [mean |-> <<0, 1>>, min |-> <<0, 1>>, max |-> <<0, 1>>, std |-> <<0, 1>>,
              valid_pixels |-> 0, total_pixels |-> Len(ndvi_array)]
        ELSE [mean |-> mean, min |-> FracMin(values), max |-> FracMax(values),
              std |-> FracSub(meansq, FracMul(mean, mean)),
              valid_pixels |-> Len(valid), total_pixels |-> Len(ndvi_array)]

-----------------------------------------------------------------------------
(* main.py and main_simple.py: the bounding box and its validation *)

LatValues == {-91, 10, 20, 95}

LonValues == {-181, 5, 15, 200}

BoundingBoxes ==
    [min_lat : LatValues, min_lon : LonValues, max_lat : LatValues, max_lon : LonValues]

\* [min_lon, min_lat, max_lon, max_lat]
BboxCoords(b) == <<b.min_lon, b.min_lat, b.max_lon, b.max_lat>>

\* main.py lines 465-480.
MainValidateStrictOnly(b) ==
    IF b.min_lat > b.max_lat \/ b.min_lon > b.max_lon
    THEN Raise(HTTPException(400,
             "Invalid bounding box: min values must be less than max values"))
    ELSE IF ~(-90 <= b.min_lat /\ b.min_lat <= 90)
            \/ ~(-90 <= b.max_lat /\ b.max_lat <= 90)
    THEN Raise(HTTPException(400, "Latitude must be between -90 and 90"))
    ELSE IF ~(-180 <= b.min_lon /\ b.min_lon <= 180)
            \/ ~(-180 <= b.max_lon /\ b.max_lon <= 180)
    THEN Raise(HTTPException(400, "Longitude must be between -180 and 180"))
    ELSE Ok(BboxCoords(b))

\* A validation that checks the ranges before the ordering.
MainValidateRangeFirst(b) ==
    IF ~(-90 <= b.min_lat /\ b.min_lat <= 90)
       \/ ~(-90 <= b.max_lat /\ b.max_lat <= 90)
    THEN Raise(HTTPException(400, "Latitude must be between -90 and 90"))
    ELSE IF ~(-180 <= b.min_lon /\ b.min_lon <= 180)
            \/ ~(-180 <= b.max_lon /\ b.max_lon <= 180)
    THEN Raise(HTTPException(400, "Longitude must be between -180 and 180"))
    ELSE IF b.min_lat >= b.max_lat \/ b.min_lon >= b.max_lon
    THEN Raise(HTTPException(400,
             "Invalid bounding box: min values must be less than max values"))
    ELSE Ok(BboxCoords(b))

MainValidate(b) ==
    IF b.min_lat >= b.max_lat \/ b.min_lon >= b.max_lon
    THEN Raise(HTTPException(400,
             "Invalid bounding box: min values must be less than max values"))
    ELSE IF ~(-90 <= b.min_lat /\ b.min_lat <= 90)
            \/ ~(-90 <= b.max_lat /\ b.max_lat <= 90)
    THEN Raise(HTTPException(400, "Latitude must be between -90 and 90"))
    ELSE IF ~(-180 <= b.min_lon /\ b.min_lon <= 180)
            \/ ~(-180 <= b.max_lon /\ b.max_lon <= 180)
    THEN Raise(HTTPException(400, "Longitude must be between -180 and 180"))
    ELSE Ok(BboxCoords(b))

\* main_simple.py lines 221-224 and 241-244.
SimpleValidate(b) ==
    IF b.min_lat >= b.max_lat \/ b.min_lon >= b.max_lon
    THEN Raise(HTTPException(400, "Invalid bounding box"))
    ELSE Ok(BboxCoords(b))

-----------------------------------------------------------------------------
(* main.py: GET /api/ndvi *)

\* Lines 492-504: the NDVIResult row; id is assigned by the table.
NDVIResult(id, b, image, stats) ==
    [id |-> id, min_lat |-> b.min_lat, min_lon |-> b.min_lon,
     max_lat |-> b.max_lat, max_lon |-> b.max_lon, image_base64 |-> image,
     ndvi_mean |-> stats.mean, ndvi_min |-> stats.min, ndvi_max |-> stats.max,
     ndvi_std |-> stats.std, valid_pixels |-> stats.valid_pixels,
     total_pixels |-> stats.total_pixels]

\* A try block that saves a row of empty statistics when the fetch fails.
MainBodySavingFailures(b, provider, rows) ==
    LET checked == MainValidate(b)
        fetched == fetch_ndvi_image(checked.value, provider)
        image   == ndvi_to_png_base64(fetched.value)
        stats   == get_ndvi_statistics(fetched.value)
        row     == NDVIResult(Len(rows) + 1, b, image, stats)
        failed  == NDVIResult(Len(rows) + 1, b, <<>>, get_ndvi_statistics(<<>>))
    IN  IF checked.kind = "exc"
        THEN [kind |-> "exc", exc |-> checked.exc, called |-> FALSE, rows |-> rows]
        ELSE IF fetched.kind = "exc"
        THEN [kind |-> "exc", exc |-> fetched.exc, called |-> TRUE,
              rows |-> Append(rows, failed)]
        ELSE [kind |-> "ok", called |-> TRUE, rows |-> Append(rows, row),
              value |-> [id           |-> row.id,
                         bounding_box |-> b,
                         ndvi_image   |-> image,
                         statistics   |-> stats]]

\* Lines 465-521: the try block.  validation is the error the validation
\* raised ("none" when the box passed), called whether the imagery provider
\* was called.
MainBody(b, provider, rows) ==
    LET checked == MainValidate(b)
        fetched == fetch_ndvi_image(checked.value, provider)
        image   == ndvi_to_png_base64(fetched.value)
        stats   == get_ndvi_statistics(fetched.value)
        row     == NDVIResult(Len(rows) + 1, b, image, stats)
    IN  IF checked.kind = "exc"
        THEN [kind |-> "exc", exc |-> checked.exc, called |-> FALSE, rows |-> rows]
        ELSE IF fetched.kind = "exc"
        THEN [kind |-> "exc", exc |-> fetched.exc, called |-> TRUE, rows |-> rows]
        ELSE [kind |-> "ok", called |-> TRUE, rows |-> Append(rows, row),
              value |-> [id           |-> row.id,
                         bounding_box |-> b,
                         ndvi_image   |-> image,
                         statistics   |-> stats]]

\* Lines 523-526: except ValueError -> 400; except Exception -> 500.
MainExcept(e) ==
    IF IsValueError(e) THEN HTTPException(400, [text |-> "", cause |-> e])
    ELSE IF IsException(e)
    THEN HTTPException(500, [text |-> "NDVI analysis failed: ", cause |-> e])
    ELSE e

\* What FastAPI sends for the handler's outcome: the status of the
\* HTTPException that left the handler, or 200 with the returned value.
Response(status_code, body) == [status_code |-> status_code, body |-> body]

\* Lines 444-526.
main_get_ndvi_analysis(b, provider, rows) ==
    LET body == MainBody(b, provider, rows)
    IN  IF body.kind = "ok"
        THEN [response |-> Response(200, body.value), called |-> body.called,
              validation |-> "none", rows |-> body.rows]
        ELSE [response |-> Response(MainExcept(body.exc).status_code,
                                    MainExcept(body.exc).detail),
              called |-> body.called,
              validation |-> IF body.called THEN "none" ELSE body.exc.detail,
              rows |-> body.rows]

-----------------------------------------------------------------------------
(* main_simple.py: GET /api/ndvi and GET /api/satellite-image *)

\* The names bound at module level in main_simple.py (lines 6-18 and the
\* definitions below them): the class SentinelHubService is imported, and no
\* instance named sentinel_hub_service is ever created.
MainSimpleGlobals ==
    {"FastAPI", "HTTPException", "CORSMiddleware", "BaseModel", "List", "Dict",
     "Optional", "uvicorn", "datetime", "timedelta", "random",
     "SentinelHubService", "app", "FieldData", "SensorReading", "Alert",
     "mock_fields"}

\* Evaluating a global name.
Lookup(name, globals) ==
    IF name \in globals THEN Ok(name)
    ELSE Raise(PyException("NameError", name))

\* Lines 220-233 and 240-253: the try block of either handler.
SimpleBody(b) ==
    LET checked == SimpleValidate(b)
        service == Lookup("sentinel_hub_service", MainSimpleGlobals)
    IN  IF checked.kind = "exc"
        THEN [kind |-> "exc", exc |-> checked.exc, called |-> FALSE]
        ELSE IF service.kind = "exc"
        THEN [kind |-> "exc", exc |-> service.exc, called |-> FALSE]
        ELSE [kind |-> "ok", called |-> TRUE, value |-> [bounding_box |-> b]]

\* Lines 234-235 and 254-255: except Exception -> 500.
SimpleExcept(e, text) ==
    IF IsException(e) THEN HTTPException(500, [text |-> text, cause |-> e])
    ELSE e

\* Lines 218-235 (GET /api/ndvi) and 238-255 (GET /api/satellite-image).
simple_handler(b, text) ==
    LET body == SimpleBody(b)
    IN  IF body.kind = "ok"
        THEN [response |-> Response(200, body.value), called |-> body.called,
              validation |-> "none"]
        ELSE [response |-> Response(SimpleExcept(body.exc, text).status_code,
                                    SimpleExcept(body.exc, text).detail),
              called |-> body.called,
              validation |-> IF body.exc.class = "HTTPException"
                             THEN body.exc.detail ELSE "none"]

-----------------------------------------------------------------------------
(* The NDVI handlers as a state machine *)

NoRequest == [handler |-> "none"]

InitNdvi ==
    /\ ndvi_request = NoRequest
    /\ db = <<>>

\* What the request saw of the provider: "not called", "error" (get_data
\* raised), "empty" (an empty list) or "data".
ProviderSeen(called, provider) ==
    IF ~called THEN "not called"
    ELSE IF provider.kind = "error" THEN "error"
    ELSE IF provider.response = <<>> THEN "empty"
    ELSE "data"

\* main.py GET /api/ndvi.  The handler is a coroutine without an await: it
\* runs to its end before the next request is served.
MainGetNdviAnalysis ==
    \E b \in BoundingBoxes, provider \in ProviderOutcomes :
        LET out == main_get_ndvi_analysis(b, provider, db)
        IN  /\ ndvi_request = NoRequest
            /\ Len(db) < MaxRows
            /\ ndvi_request' = [handler    |-> "main.get_ndvi_analysis",
                                bbox       |-> b,
                                provider   |-> ProviderSeen(out.called, provider),
                                bands      |-> IF out.called THEN provider.bands
                                               ELSE <<>>,
                                called     |-> out.called,
                                validation |-> out.validation,
                                stored     |-> Len(out.rows) - Len(db),
                                response   |-> out.response]
            /\ db' = out.rows
            /\ UNCHANGED <<inferenceVars, tokenVars>>

\* main_simple.py GET /api/ndvi.
SimpleGetNdviAnalysis ==
    \E b \in BoundingBoxes :
        LET out == simple_handler(b, "NDVI analysis failed: ")
        IN  /\ ndvi_request = NoRequest
            /\ ndvi_request' = [handler    |-> "main_simple.get_ndvi_analysis",
                                bbox       |-> b,
                                provider   |-> "not called",
                                called     |-> out.called,
                                validation |-> out.validation,
                                stored     |-> 0,
                                response   |-> out.response]
            /\ UNCHANGED <<db, inferenceVars, tokenVars>>

\* main_simple.py GET /api/satellite-image.
SimpleGetSatelliteImage ==
    \E b \in BoundingBoxes :
        LET out == simple_handler(b, "Satellite image fetch failed: ")
        IN  /\ ndvi_request = NoRequest
            /\ ndvi_request' = [handler    |-> "main_simple.get_satellite_image",
                                bbox       |-> b,
                                provider   |-> "not called",
                                called     |-> out.called,
                                validation |-> out.validation,
                                stored     |-> 0,
                                response   |-> out.response]
            /\ UNCHANGED <<db, inferenceVars, tokenVars>>

\* satellite_service.get_ndvi_statistics called on an array of its own
\* (the module-level instance of line 176 is importable by any caller).
GetNdviStatistics ==
    \E ndvi_array \in NdviArrays :
        /\ ndvi_request = NoRequest
        /\ ndvi_request' = [handler    |-> "satellite_service.get_ndvi_statistics",
                            ndvi_array |-> ndvi_array,
                            statistics |-> get_ndvi_statistics(ndvi_array)]
        /\ UNCHANGED <<db, inferenceVars, tokenVars>>

\* The response has been sent, or the call has returned.
NdviRespond ==
    /\ ndvi_request # NoRequest
    /\ ndvi_request' = NoRequest
    /\ UNCHANGED <<db, inferenceVars, tokenVars>>

NextNdvi ==
    \/ MainGetNdviAnalysis
    \/ SimpleGetNdviAnalysis
    \/ SimpleGetSatelliteImage
    \/ GetNdviStatistics
    \/ NdviRespond

-----------------------------------------------------------------------------
(* sentinel_hub_service.py *)

\* The module-level names of a module that also imports requests.
SentinelGlobalsWithRequests ==
    {"List", "Dict", "Any", "os", "base64", "datetime", "SentinelHubService",
     "requests"}

\* The names bound at module level (lines 1-5): typing's List, Dict and Any,
\* os, base64, the module datetime, and the class.  requests and timedelta
\* are never imported.
SentinelGlobals ==
    {"List", "Dict", "Any", "os", "base64", "datetime", "SentinelHubService"}

\* The attributes of the module datetime that the service uses: the class
\* datetime.datetime is there; now() is a method of that class, not of the
\* module.
DatetimeModuleAttributes == {"datetime", "timedelta"}

Callers == 1..NumCallers

\* The clock readings datetime.now() can give, in seconds.
Times == {0, 1800, 3600, 7200}

\* What the auth endpoint answers: a token with or without expires_in, an
\* HTTP error status, or a body without access_token.
AuthResponses ==
    { [status |-> 200, body |-> [access_token |-> "token-a", expires_in |-> 1800]],
      [status |-> 200, body |-> [access_token |-> "token-b"]],
      [status |-> 200, body |-> EmptyDict],
      [status |-> 401, body |-> EmptyDict] }

Idle == [at |-> "idle"]

\* Line 15: the cached token is returned when it is set, its expiry is set
\* and datetime.now() is before the expiry.  The operands are evaluated left
\* to right; datetime.now is looked up on the module datetime.
CheckCached(token, expires_at, now) ==
    IF token = "None" THEN Ok(FALSE)
    ELSE IF expires_at = -1 THEN Ok(FALSE)
    ELSE IF "now" \notin DatetimeModuleAttributes
    THEN Raise(PyException("AttributeError", "now"))
    ELSE Ok(now < expires_at)

\* Lines 23-28 on an answer of the auth endpoint: raise_for_status, then the
\* two assignments.  Gives the new cache and what the call does.
StoreToken(resp, now) ==
    IF resp.status >= 400
    THEN [exc |-> "HTTPError", token |-> access_token, expires_at |-> token_expires_at]
    ELSE IF "access_token" \notin DOMAIN resp.body
    THEN [exc |-> "KeyError", token |-> access_token, expires_at |-> token_expires_at]
    ELSE IF "now" \notin DatetimeModuleAttributes
    THEN [exc |-> "AttributeError", token |-> resp.body.access_token,
          expires_at |-> token_expires_at]
    ELSE IF Lookup("timedelta", SentinelGlobals).kind = "exc"
    THEN [exc |-> "NameError", token |-> resp.body.access_token,
          expires_at |-> token_expires_at]
    ELSE [exc |-> "none", token |-> resp.body.access_token,
          expires_at |-> now + Get(resp.body, "expires_in", 3600)]

InitToken ==
    /\ access_token = "None"
    /\ token_expires_at = -1
    /\ auth_requests = 0
    /\ pc = [t \in Callers |-> Idle]

\* A thread calls _get_access_token, directly or from fetch_ndvi_image by
\* way of _get_headers (line 66, line 32).
CallService(t) ==
    \E entry \in {"_get_access_token", "fetch_ndvi_image"} :
        /\ pc[t] = Idle
        /\ pc' = [pc EXCEPT ![t] = [at |-> "check", entry |-> entry]]
        /\ UNCHANGED <<access_token, token_expires_at, auth_requests>>
        /\ UNCHANGED <<inferenceVars, ndviVars>>

\* Line 15.  No lock is taken before it or after it.
CheckToken(t) ==
    \E now \in Times :
        LET cached == CheckCached(access_token, token_expires_at, now)
        IN  /\ pc[t].at = "check"
            /\ pc' = [pc EXCEPT ![t] =
                        IF cached.kind = "exc"
                        THEN [at |-> "raised", entry |-> pc[t].entry,
                              exc |-> cached.exc.class]
                        ELSE IF cached.value
                        THEN [at |-> "returned", entry |-> pc[t].entry,
                              token |-> access_token]
                        ELSE [at |-> "refresh", entry |-> pc[t].entry]]
            /\ UNCHANGED <<access_token, token_expires_at, auth_requests>>
            /\ UNCHANGED <<inferenceVars, ndviVars>>

\* Lines 18-28: the token request and the update of the cache.  The name
\* requests is evaluated first.
RequestToken(t) ==
    \E resp \in AuthResponses, now \in Times :
        LET posted == Lookup("requests", SentinelGlobals).kind = "ok"
            stored == StoreToken(resp, now)
        IN  /\ pc[t].at = "refresh"
            /\ auth_requests < MaxAuthRequests
            /\ IF ~posted
               THEN /\ pc' = [pc EXCEPT ![t] = [at |-> "raised", entry |-> pc[t].entry,
                                                exc |-> "NameError"]]
                    /\ UNCHANGED <<access_token, token_expires_at, auth_requests>>
               ELSE /\ auth_requests' = auth_requests + 1
                    /\ access_token' = stored.token
                    /\ token_expires_at' = stored.expires_at
                    /\ pc' = [pc EXCEPT ![t] =
                                IF stored.exc = "none"
                                THEN [at |-> "returned", entry |-> pc[t].entry,
                                      token |-> stored.token]
                                ELSE [at |-> "raised", entry |-> pc[t].entry,
                                      exc |-> stored.exc]]
            /\ UNCHANGED <<inferenceVars, ndviVars>>

\* The call is over: its caller has the token or the exception.
FinishCall(t) ==
    /\ pc[t].at \in {"returned", "raised"}
    /\ pc' = [pc EXCEPT ![t] = Idle]
    /\ UNCHANGED <<access_token, token_expires_at, auth_requests>>
    /\ UNCHANGED <<inferenceVars, ndviVars>>

NextToken ==
    \E t \in Callers :
        CallService(t) \/ CheckToken(t) \/ RequestToken(t) \/ FinishCall(t)

-----------------------------------------------------------------------------
(* Specifications *)

Init == InitInference /\ InitNdvi /\ InitToken

\* The repository ships no model artifact: both scorers are placeholders.
InitNoArtifacts ==
    /\ Init
    /\ models_dir = [cnn |-> "absent", lstm |-> "absent"]

NextInference ==
    \/ PredictFieldHealth
    \/ PredictYield
    \/ PredictYieldAgain
    \/ GetModelInfo
    \/ Respond

Next == NextInference \/ NextNdvi \/ NextToken

\* The prediction engine alone.
SpecInference == Init /\ [][NextInference]_vars

\* The NDVI handlers alone.
SpecNdvi == InitNoArtifacts /\ [][NextNdvi]_vars

\* The token cache of SentinelHubService under concurrent callers.
SpecToken == InitNoArtifacts /\ [][NextToken]_vars

Spec == Init /\ [][Next]_vars

-----------------------------------------------------------------------------
(* Properties of predict_field_health and predict_yield *)

HealthKeys == {"health_score", "confidence", "recommendations", "risk_factors", "timestamp"}

IsHealthCall == last.op = "predict_field_health"

IsYieldCall == last.op = "predict_yield"

\* C1: predict_field_health never raises to its caller: whatever the input
\* and whatever the outcome of model loading, an exception raised inside the
\* call is caught and the call returns a record with the keys health_score,
\* confidence, recommendations, risk_factors and timestamp.
C1_NeverRaises ==
    IsHealthCall =>
        /\ last.result.outcome = "returned"
        /\ DOMAIN last.result.value = HealthKeys

\* A call on readings without .get, with the models loaded: feature
\* extraction raised AttributeError and the call returned.
C1_Witness ==
    /\ IsHealthCall
    /\ models_loaded
    /\ last.sensor_data # <<>>
    /\ last.result.path = "fallback"
    /\ last.result.logged = "AttributeError"

\* C2 as stated: for any non-empty sensor-reading sequence the call returns
\* health_score in [0,100], confidence in [70,95] and at least one
\* recommendation.
C2_AsStated ==
    (IsHealthCall /\ last.sensor_data # <<>>) =>
        /\ last.result.value.health_score \in 0..1000
        /\ last.result.value.confidence \in 700..950
        /\ Len(last.result.value.recommendations) >= 1

\* C2 amended: for any non-empty sensor-reading sequence the call returns
\* either the fixed fallback record (health_score 75.0, confidence 60.0, two
\* recommendations), which it does exactly when the models are not loaded or
\* a step raises, or a computed record with confidence in [70,95] and at
\* least one recommendation, whose health_score is in [0,100] whenever the
\* scorer's output is in [0,1].
C2_Amended ==
    (IsHealthCall /\ last.sensor_data # <<>>) =>
        LET r == last.result
            raises ==
                \/ ~models_loaded
                \/ \E i \in 1..Len(last.sensor_data) :
                       last.sensor_data[i].type # "dict"
                \/ last.scorer.kind = "exc"
        IN  /\ r.outcome = "returned"
            /\ Len(r.value.recommendations) >= 1
            /\ raises =>
                   /\ r.value.health_score = 750
                   /\ r.value.confidence = 600
                   /\ Len(r.value.recommendations) = 2
            /\ ~raises =>
                   /\ r.value.confidence \in 700..950
                   /\ (last.scorer.value \in 0..10000
                           => r.value.health_score \in 0..1000)

\* A computed prediction on a non-empty sequence whose score is below 70, so
\* that the clamp of the confidence acts.
C2_Witness ==
    /\ IsHealthCall
    /\ last.sensor_data # <<>>
    /\ last.result.path = "computed"
    /\ last.result.value.health_score = 552
    /\ last.result.value.confidence = 700

\* C3: for an empty sensor-reading sequence predict_field_health returns
\* exactly the fallback record: health_score 75.0, confidence 60.0, the two
\* documented recommendations, the one documented risk factor, timestamp "".
C3_EmptyInputFallback ==
    (IsHealthCall /\ last.sensor_data = <<>>) =>
        /\ last.result.outcome = "returned"
        /\ last.result.value =
               [health_score    |-> 750,
                confidence      |-> 600,
                recommendations |-> <<"Monitor field conditions closely",
                                       "Check sensor readings">>,
                risk_factors    |-> <<"Data processing error">>,
                timestamp       |-> ""]

\* A call on the empty sequence with both models loaded: the ValueError of
\* line 104 was raised and caught.
C3_Witness ==
    /\ IsHealthCall
    /\ last.sensor_data = <<>>
    /\ models_loaded
    /\ last.result.outcome = "returned"
    /\ last.result.logged = "ValueError"

\* Some step of predict_yield raises on this call.
YieldStepRaises ==
    \/ ~models_loaded
    \/ last.growth_data.type # "dict"
    \/ last.forecaster.kind = "exc"

\* C4: predict_yield never raises to its caller, and whenever a step raises
\* the call returns exactly the fallback record: yield_per_hectare 85.0,
\* confidence 60.0, three default key_factors, trend "stable" and two generic
\* recommendations.
C4_YieldNeverRaises ==
    IsYieldCall =>
        /\ last.result.outcome = "returned"
        /\ YieldStepRaises =>
               last.result.value =
                   [yield_per_hectare |-> 850,
                    confidence        |-> 600,
                    key_factors       |-> <<"Weather conditions", "Soil quality",
                                            "Pest pressure">>,
                    trend             |-> "stable",
                    recommendations   |-> <<"Optimize irrigation",
                                            "Monitor soil nutrients">>]

\* A call with the models loaded in which a step after the model-loaded
\* check raised (growth_data that is no container) and the call returned.
C4_Witness ==
    /\ IsYieldCall
    /\ models_loaded
    /\ last.growth_data.type = "none"
    /\ last.result.outcome = "returned"
    /\ last.result.logged = "TypeError"

\* C5: every YieldPrediction returned by predict_yield, for any growth_data
\* and any raw forecaster output, has yield_per_hectare >= 0 and confidence
\* in [65,90].
C5_YieldRanges ==
    (IsYieldCall /\ last.result.outcome = "returned") =>
        /\ last.result.value.yield_per_hectare >= 0
        /\ last.result.value.confidence \in 650..900

-----------------------------------------------------------------------------
(* Properties of the NDVI handlers *)

\* An HTTP request has been served and its response is not yet sent.
Served == "response" \in DOMAIN ndvi_request

NdviEntryPoints == {"main.get_ndvi_analysis", "main_simple.get_ndvi_analysis"}

OrderingViolated(b) == b.min_lat >= b.max_lat \/ b.min_lon >= b.max_lon

OutOfRange(b) ==
    \/ b.min_lat < -90 \/ b.min_lat > 90 \/ b.max_lat < -90 \/ b.max_lat > 90
    \/ b.min_lon < -180 \/ b.min_lon > 180 \/ b.max_lon < -180 \/ b.max_lon > 180

InvalidBoundsErrors ==
    {"Invalid bounding box: min values must be less than max values",
     "Invalid bounding box"}

RangeErrors ==
    {"Latitude must be between -90 and 90", "Longitude must be between -180 and 180"}

\* C6: in the GET /api/ndvi handler every bounding box that fails validation
\* (min >= max on an axis, or a coordinate out of range) is reported to the
\* caller as a 400-class error, never as a 500-class error, and the imagery
\* provider is not called.
C6_ValidationIs400 ==
    (/\ Served
     /\ ndvi_request.handler \in NdviEntryPoints
     /\ (OrderingViolated(ndvi_request.bbox) \/ OutOfRange(ndvi_request.bbox)))
        => /\ ndvi_request.response.status_code \in 400..499
           /\ ~ndvi_request.called

\* C7: when the imagery provider fails (transport or authentication failure,
\* or an empty response) the handler answers with a 500-class error, never
\* with an NDVI result, and stores none.
C7_ProviderFailureIs500 ==
    (Served /\ ndvi_request.provider \in {"error", "empty"}) =>
        /\ ndvi_request.response.status_code \in 500..599
        /\ ndvi_request.stored = 0

\* A request of main.py whose box passed validation and whose provider
\* returned an empty list.
C7_Witness ==
    /\ Served
    /\ ndvi_request.handler = "main.get_ndvi_analysis"
    /\ ndvi_request.called
    /\ ndvi_request.provider = "empty"
    /\ ndvi_request.response.status_code = 500

\* C8: validation fails with the invalid-bounds error exactly when
\* min_lat >= max_lat or min_lon >= max_lon (equal bounds are invalid), and
\* it accepts every box with strictly ordered, in-range coordinates.
C8_InvalidBoundsExactly ==
    Served =>
        /\ (ndvi_request.validation \in InvalidBoundsErrors)
               <=> OrderingViolated(ndvi_request.bbox)
        /\ (~OrderingViolated(ndvi_request.bbox) /\ ~OutOfRange(ndvi_request.bbox))
               => ndvi_request.validation = "none"

\* main.py has rejected the box (10, 5, 10, 15), whose latitudes are equal,
\* with the invalid-bounds error.
C8_Witness ==
    /\ Served
    /\ ndvi_request.handler = "main.get_ndvi_analysis"
    /\ ndvi_request.bbox = [min_lat |-> 10, min_lon |-> 5, max_lat |-> 10, max_lon |-> 15]
    /\ ndvi_request.validation \in InvalidBoundsErrors

\* main.py has accepted the box (10, 5, 20, 15).
C8_WitnessAccepted ==
    /\ Served
    /\ ndvi_request.handler = "main.get_ndvi_analysis"
    /\ ndvi_request.bbox = [min_lat |-> 10, min_lon |-> 5, max_lat |-> 20, max_lon |-> 15]
    /\ ndvi_request.validation = "none"
    /\ ndvi_request.called

\* C9: validation rejects with a range error every box whose latitude lies
\* outside [-90,90] or whose longitude lies outside [-180,180], in every NDVI
\* entry point, and no such box reaches the imagery provider.  A box that
\* also violates the ordering counts as rejected whichever of the two errors
\* it is given.
C9_RangeRejected ==
    (Served /\ OutOfRange(ndvi_request.bbox)) =>
        /\ ndvi_request.validation # "none"
        /\ ~OrderingViolated(ndvi_request.bbox)
               => ndvi_request.validation \in RangeErrors
        /\ ~ndvi_request.called

-----------------------------------------------------------------------------
(* Properties of the token cache *)

\* The threads between the failed check of line 15 and the end of the
\* refresh (lines 18-28).
Refreshing == {t \in Callers : pc[t].at = "refresh"}

\* C10: the refresh of the cached access token is mutually exclusive: of
\* the concurrent callers of _get_access_token that find the token absent or
\* expired, at most one at a time is in the refresh, so that one token
\* request is made and the others reuse its result.
C10_RefreshMutuallyExclusive == Cardinality(Refreshing) <= 1


\* The expiries line 27 can store: now + expires_in, 3600 s when the answer
\* has no expires_in.
StorableExpiries == {now + e : now \in Times, e \in {1800, 3600}}

\* C11: the access token is cached and refreshed lazily.  Over sequential
\* calls of _get_access_token (no other caller is inside the service), a call
\* returns from the check of line 15 only with the cached token and without a
\* token request, a call that finds no token cached goes on to the refresh,
\* and the refresh issues exactly one token request and, when the call
\* returns, has stored the returned token with an expiry now + expires_in.
C11_LazyRefresh ==
    [][\A t \in Callers :
          (\A u \in Callers \ {t} : pc[u] = Idle) =>
              /\ (pc[t].at = "check" /\ pc'[t].at = "returned") =>
                     /\ access_token # "None"
                     /\ pc'[t].token = access_token
                     /\ auth_requests' = auth_requests
              /\ (pc[t].at = "check" /\ access_token = "None") =>
                     pc'[t].at \in {"check", "refresh"}
              /\ (pc[t].at = "refresh" /\ pc'[t].at # "refresh") =>
                     /\ auth_requests' = auth_requests + 1
                     /\ pc'[t].at = "returned" =>
                            /\ access_token' = pc'[t].token
                            /\ access_token' # "None"
                            /\ token_expires_at' \in StorableExpiries
      ]_vars

-----------------------------------------------------------------------------
(* Properties of model loading *)

\* The state a scorer ended in, read from its handle as get_model_info
\* exposes it: a handle left at None is a failed load.
ScorerState(handle) == IF handle = "None" THEN "Failed" ELSE handle

\* The state the claim gives a scorer for what was found of its artifact.
ClaimedScorerState(artifact) ==
    IF artifact = "present" THEN "Loaded"
    ELSE IF artifact = "absent" THEN "Placeholder"
    ELSE "Failed"

\* Every reading of the sequence is a dict of numbers.
WellFormed(sensor_data) ==
    /\ sensor_data # <<>>
    /\ \A i \in 1..Len(sensor_data) : sensor_data[i].type = "dict"

\* C12: model loading is a one-time transition made at construction, per
\* scorer: a scorer whose artifact exists and deserializes is Loaded, one
\* whose artifact is absent is Placeholder, and then a usable scorer has been
\* constructed and predictions on well-formed input are computed with it
\* instead of being the fixed fallback record, and one whose artifact fails
\* to deserialize is Failed.
C12_PerScorerLoading ==
    /\ ScorerState(cnn_model) = ClaimedScorerState(models_dir.cnn)
    /\ ScorerState(lstm_model) = ClaimedScorerState(models_dir.lstm)
    /\ (/\ models_dir.cnn = "absent"
        /\ IsHealthCall
        /\ WellFormed(last.sensor_data)) => last.result.path = "computed"
    /\ (/\ models_dir.lstm = "absent"
        /\ IsYieldCall
        /\ last.growth_data.type = "dict") => last.result.path = "computed"

\* C13: after construction the model-loading state (models_loaded,
\* cnn_model, lstm_model) is read-only: no call of predict_field_health,
\* predict_yield or get_model_info, the calls that take the fallback path
\* included, changes it, and a failed load is never retried.
C13_LoadingStateReadOnly ==
    [][<<models_loaded, cnn_model, lstm_model>>' = <<models_loaded, cnn_model, lstm_model>>
      ]_vars

\* A predict_field_health call on well-formed readings has taken the fallback
\* path because the load had failed, and the load is still failed.
C13_Witness ==
    /\ IsHealthCall
    /\ WellFormed(last.sensor_data)
    /\ last.result.path = "fallback"
    /\ last.result.logged = "Exception"
    /\ ~models_loaded
    /\ cnn_model = "None"

\* C14: predict_yield builds a deterministic representation when growth_data
\* has no historical sub-records: two predict_yield calls with the same
\* growth_data and the same loaded forecaster return identical
\* YieldPrediction records.
C14_YieldDeterministic ==
    (/\ IsYieldCall
     /\ "previous" \in DOMAIN last
     /\ "historical_data" \notin last.growth_data.keys) =>
        last.result.value = last.previous.value

-----------------------------------------------------------------------------
(* Properties of the rules *)

\* A predict_field_health call that returned a computed prediction.
ComputedHealth == IsHealthCall /\ last.result.path = "computed"

\* The score (hundredths) and the features the rules of that call were given.
CallScore == last.scorer.value

CallFeatures == _extract_health_features(last.sensor_data).value

\* The messages of the health rules in declaration order, and for each the
\* predicate of its rule as the claim gives it.
HealthRuleMessages ==
    <<"Immediate intervention required", "Increase monitoring frequency",
      "Increase irrigation", "Adjust soil pH levels", "Monitor temperature stability">>

HealthRuleHolds(score, f) ==
    <<score < 7000,
      score < 7000,
      FracLess(f.avg_soil_moisture, <<40, 1>>),
      FracLess(f.avg_ph, <<60, 10>>) \/ FracLess(<<70, 10>>, f.avg_ph),
      FracLess(<<50, 1>>, f.temp_variance)>>

\* The subsequence of messages whose entry of holds is true.
FiredMessages(messages, holds) ==
    LET fired == SelectSeq([i \in 1..Len(messages) |-> i], LAMBDA i : holds[i])
    IN  [k \in 1..Len(fired) |-> messages[fired[k]]]

HealthCanonical ==
    <<"Field conditions are optimal", "Continue current management practices">>

NoHealthRuleFires(score, f) ==
    \A i \in 1..Len(HealthRuleMessages) : ~HealthRuleHolds(score, f)[i]

\* C15 as stated: for every score and feature set the recommendation list
\* is the subsequence of the five rule messages whose rule predicates hold
\* (score < 70; avg_soil_moisture < 40; avg_ph < 6.0 or > 7.0;
\* temp_variance > 50), in declaration order.
C15_AsStated ==
    ComputedHealth =>
        last.result.value.recommendations =
            FiredMessages(HealthRuleMessages, HealthRuleHolds(CallScore, CallFeatures))

\* C15 amended: whenever at least one rule predicate holds, the
\* recommendation list is exactly the subsequence of the five rule messages
\* whose rule predicates hold, in declaration order; when none holds the
\* list is not that (empty) subsequence but the two canonical messages.
C15_Amended ==
    ComputedHealth =>
        IF NoHealthRuleFires(CallScore, CallFeatures)
        THEN last.result.value.recommendations = HealthCanonical
        ELSE last.result.value.recommendations =
                 FiredMessages(HealthRuleMessages,
                               HealthRuleHolds(CallScore, CallFeatures))

\* A computed prediction in which the low-score rule and the low-moisture
\* rule both fired: the escalation messages come first, the irrigation
\* message after them.
C15_Witness ==
    /\ ComputedHealth
    /\ CallScore < 7000
    /\ FracLess(CallFeatures.avg_soil_moisture, <<40, 1>>)
    /\ SubSeq(last.result.value.recommendations, 1, 3) =
           <<"Immediate intervention required", "Increase monitoring frequency",
             "Increase irrigation">>

\* C16: the health recommendation list is never empty: when no health rule
\* fires it is exactly the two canonical messages, and those two messages
\* appear in the list only when no rule fires.
C16_NeverEmpty ==
    ComputedHealth =>
        LET out == last.result.value.recommendations
        IN  /\ out # <<>>
            /\ NoHealthRuleFires(CallScore, CallFeatures) => out = HealthCanonical
            /\ (\E i \in 1..Len(out), j \in 1..2 : out[i] = HealthCanonical[j])
                   => NoHealthRuleFires(CallScore, CallFeatures)

\* A computed prediction with a score of 96.5 on one reading whose values
\* trigger no rule: the list is the canonical pair.
C16_Witness ==
    /\ ComputedHealth
    /\ CallScore = 9650
    /\ Len(last.sensor_data) = 1
    /\ NoHealthRuleFires(CallScore, CallFeatures)
    /\ last.result.value.recommendations = HealthCanonical

\* The four risk labels and, for each, its own predicate as the claim gives
\* it.  ph_stability is 1 / (std + 0.1), carried as the variance of the pH:
\* it is below 0.5 exactly when the standard deviation is above 1.9, that is
\* the variance above 3.61.
RiskLabels ==
    <<"High temperature stress", "High humidity - disease risk", "Water stress",
      "Unstable soil pH">>

RiskHolds(f) ==
    <<FracLess(<<30, 1>>, f.avg_temperature),
      FracLess(<<80, 1>>, f.avg_humidity),
      FracLess(f.avg_soil_moisture, <<30, 1>>),
      FracLess(<<361, 100>>, f.ph_stability)>>

\* C17: risk factors are evaluated independently of the health score and of
\* the recommendation rules: each of the four labels is in the list exactly
\* when its own predicate holds (avg_temperature > 30, avg_humidity > 80,
\* avg_soil_moisture < 30, ph_stability < 0.5), and the list is empty when
\* none holds.
C17_RiskFactorsIndependent ==
    ComputedHealth =>
        LET out   == last.result.value.risk_factors
            holds == RiskHolds(CallFeatures)
        IN  /\ \A i \in 1..Len(RiskLabels) : InSeq(RiskLabels[i], out) <=> holds[i]
            /\ (\A i \in 1..Len(RiskLabels) : ~holds[i]) => out = <<>>

\* A computed prediction with the top score, so that no score rule acts,
\* whose readings are hot and of unstable pH while the soil moisture (45)
\* fires no rule: exactly those two risk labels.
C17_Witness ==
    /\ ComputedHealth
    /\ CallScore = 10000
    /\ last.result.value.risk_factors = <<"High temperature stress", "Unstable soil pH">>

\* A predict_yield call that returned a computed prediction.
ComputedYield == IsYieldCall /\ last.result.path = "computed"

\* The top-level keys key_factors looks for, in order, and their labels.
FactorKeys == <<"weather_data", "soil_quality", "pest_pressure", "nutrient_levels">>

FactorLabels ==
    <<"Weather conditions", "Soil quality", "Pest pressure", "Nutrient availability">>

DefaultFactors ==
    <<"Weather conditions", "Soil quality", "Pest pressure", "Management practices">>

\* C18: key_factors is derived only from which of the top-level keys
\* weather_data, soil_quality, pest_pressure, nutrient_levels are present in
\* growth_data: each present key contributes its label, in that fixed order,
\* when none is present the result is the fixed four-label default set, and
\* the list is never empty.
C18_KeyFactorsFromKeys ==
    ComputedYield =>
        LET out     == last.result.value.key_factors
            present == [i \in 1..Len(FactorKeys) |->
                            FactorKeys[i] \in last.growth_data.keys]
        IN  /\ out # <<>>
            /\ IF \E i \in 1..Len(FactorKeys) : present[i]
               THEN out = FiredMessages(FactorLabels, present)
               ELSE out = DefaultFactors

\* A computed prediction for growth_data with pest_pressure, weather_data and
\* historical_data: the weather label, then the pest label.
C18_Witness ==
    /\ ComputedYield
    /\ last.growth_data.keys = {"pest_pressure", "weather_data", "historical_data"}
    /\ last.result.value.key_factors = <<"Weather conditions", "Pest pressure">>

\* The messages of the yield rules in declaration order and, for the raw
\* predicted yield y (hundredths) and the key factors kf, their predicates.
YieldRuleMessages ==
    <<"Optimize irrigation schedule", "Review fertilizer application",
      "Monitor weather forecasts closely", "Implement integrated pest management">>

YieldRuleHolds(y, kf) ==
    <<y < 8000,
      y < 8000,
      InSeq("Weather conditions", kf),
      InSeq("Pest pressure", kf)>>

YieldCanonical ==
    <<"Continue current practices", "Monitor for optimization opportunities">>

\* C19: yield recommendations follow the ordered-rule pattern: the two
\* irrigation and fertilizer messages appear iff the predicted yield is below
\* 80, the weather message iff "Weather conditions" is in key_factors, the
\* pest message iff "Pest pressure" is in key_factors, in that order; the two
\* canonical messages appear iff no rule fires, so the list is never empty.
C19_YieldRecommendations ==
    ComputedYield =>
        LET out   == last.result.value.recommendations
            holds == YieldRuleHolds(last.forecaster.value,
                                    last.result.value.key_factors)
            none  == \A i \in 1..Len(YieldRuleMessages) : ~holds[i]
        IN  /\ \A i \in 1..Len(YieldRuleMessages) :
                   InSeq(YieldRuleMessages[i], out) <=> holds[i]
            /\ ~none => out = FiredMessages(YieldRuleMessages, holds)
            /\ \A j \in 1..2 : InSeq(YieldCanonical[j], out) <=> none
            /\ out # <<>>

\* A computed prediction of 79.96, which rounds to 80.0, for growth_data
\* with none of the known keys: the yield rule, the weather rule and the
\* pest rule all fired.
C19_Witness ==
    /\ ComputedYield
    /\ last.forecaster.value = 7996
    /\ last.growth_data.keys = {}
    /\ last.result.value.yield_per_hectare = 800
    /\ last.result.value.recommendations = YieldRuleMessages

\* A computed prediction of 85.0 with soil quality as the only key factor: no
\* rule fired and the list is the canonical pair.
C19_WitnessCanonical ==
    /\ ComputedYield
    /\ last.forecaster.value = 8500
    /\ last.result.value.key_factors = <<"Soil quality">>
    /\ last.result.value.recommendations = YieldCanonical

-----------------------------------------------------------------------------
(* Properties of the NDVI statistics *)

StatisticsCall == ndvi_request.handler = "satellite_service.get_ndvi_statistics"

\* The pixels of the array that are finite floats: quotients by a nonzero
\* denominator.
FinitePixels(a) == {i \in 1..Len(a) : a[i].v[2] # 0}

\* C20: NDVI statistics never fail on a degenerate raster: for an array of N
\* pixels with no finite value the result is mean 0, min 0, max 0, std 0,
\* valid_pixels 0, total_pixels N; for every array valid_pixels is the number
\* of finite pixels, total_pixels is N and valid_pixels <= total_pixels.
C20_DegenerateStatistics ==
    StatisticsCall =>
        LET a  == ndvi_request.ndvi_array
            st == ndvi_request.statistics
        IN  /\ st.valid_pixels = Cardinality(FinitePixels(a))
            /\ st.total_pixels = Len(a)
            /\ st.valid_pixels <= st.total_pixels
            /\ FinitePixels(a) = {} =>
                   st = [mean |-> <<0, 1>>, min |-> <<0, 1>>, max |-> <<0, 1>>,
                         std |-> <<0, 1>>, valid_pixels |-> 0,
                         total_pixels |-> Len(a)]

\* Statistics of the two-pixel array (NaN, inf): all zero, of two pixels.
C20_Witness ==
    /\ StatisticsCall
    /\ ndvi_request.ndvi_array = <<NonFinitePixel(<<0, 0>>), NonFinitePixel(<<1, 0>>)>>
    /\ ndvi_request.statistics.valid_pixels = 0
    /\ ndvi_request.statistics.total_pixels = 2
    /\ ndvi_request.statistics.mean = <<0, 1>>

\* Statistics of an array with one NaN among finite pixels: the NaN is not
\* counted as valid.
C20_WitnessMixed ==
    /\ StatisticsCall
    /\ ndvi_request.ndvi_array =
           <<FinitePixel(<<1, 2>>), NonFinitePixel(<<0, 0>>), FinitePixel(<<0, 1>>)>>
    /\ ndvi_request.statistics.valid_pixels = 2
    /\ ndvi_request.statistics.total_pixels = 3

\* A request of main.py for which the provider returned a raster.
ServedWithData ==
    /\ Served
    /\ ndvi_request.handler = "main.get_ndvi_analysis"
    /\ ndvi_request.provider = "data"

\* The pixels whose red and near-infrared bands are both zero.
ZeroDenominator(bands) == {i \in 1..Len(bands) : bands[i].B04 + bands[i].B08 = 0}

\* C21: the index computation maps a pixel with red = nir = 0 to the
\* invalid-pixel sentinel in every imagery provider variant, so that no NaN
\* or infinite value from a zero denominator reaches the statistics, and such
\* a pixel is not counted among the valid pixels.
C21_ZeroDenominatorInvalid ==
    ServedWithData =>
        LET bands == ndvi_request.bands
            zero  == ZeroDenominator(bands)
        IN  /\ \A i \in zero :
                   /\ evaluatePixel(bands[i]).v[2] # 0
                   /\ sentinel_hub_evaluatePixel(bands[i]).v[2] # 0
            /\ ndvi_request.response.body.statistics.valid_pixels =
                   Len(bands) - Cardinality(zero)
            /\ ndvi_request.response.body.statistics.total_pixels = Len(bands)

-----------------------------------------------------------------------------
(* Properties of feature extraction *)

\* The soil-moisture column of the call's readings, with the default 40 for
\* a reading that has none.
MoistureColumn == Column(last.sensor_data, "soil_moisture", 400)

IsConstant(values) == \A i \in 1..Len(values) : values[i] = values[1]

C22_WitnessSlope ==
    /\ ComputedHealth
    /\ MoistureColumn = <<450, 400>>
    /\ FracEq(CallFeatures.moisture_trend, <<-1, 2>>)

\* Soil moisture rising from 25 to 65 between two readings: the slope of 40
\* per reading, divided by 10, is clamped to 1.
C22_WitnessClamped ==
    /\ ComputedHealth
    /\ MoistureColumn = <<250, 650>>
    /\ CallFeatures.moisture_trend = <<1, 1>>

-----------------------------------------------------------------------------
(* Properties of the models_loaded flag *)

\* Either artifact was found and failed to deserialize.
DeserializationFailed == models_dir.cnn = "corrupt" \/ models_dir.lstm = "corrupt"

\* C23: the single models_loaded flag couples the two scorers: models_loaded
\* is true only if both cnn_model and lstm_model are non-null, and a
\* deserialization failure of either artifact makes both
\* predict_field_health and predict_yield return their fixed fallback
\* records on every later request, even when the other model was loaded.
C23_FlagCouplesScorers ==
    /\ models_loaded => (cnn_model # "None" /\ lstm_model # "None")
    /\ DeserializationFailed =>
           /\ ~models_loaded
           /\ IsHealthCall =>
                  /\ last.result.outcome = "returned"
                  /\ last.result.value =
                         [health_score    |-> 750,
                          confidence      |-> 600,
                          recommendations |-> <<"Monitor field conditions closely",
                                                 "Check sensor readings">>,
                          risk_factors    |-> <<"Data processing error">>,
                          timestamp       |-> ""]
           /\ IsYieldCall =>
                  /\ last.result.outcome = "returned"
                  /\ last.result.value =
                         [yield_per_hectare |-> 850,
                          confidence        |-> 600,
                          key_factors       |-> <<"Weather conditions", "Soil quality",
                                                  "Pest pressure">>,
                          trend             |-> "stable",
                          recommendations   |-> <<"Optimize irrigation",
                                                  "Monitor soil nutrients">>]

\* The CNN artifact was loaded and the LSTM artifact failed to deserialize:
\* predict_field_health on well-formed readings, whose own model is there,
\* has returned the fallback record.
C23_Witness ==
    /\ models_dir = [cnn |-> "present", lstm |-> "corrupt"]
    /\ cnn_model = "Loaded"
    /\ IsHealthCall
    /\ WellFormed(last.sensor_data)
    /\ last.result.path = "fallback"
    /\ last.result.value.confidence = 600

-----------------------------------------------------------------------------
(* Properties of the persistence of NDVI results *)

\* The bounding box and the statistics a row of ndvi_results holds.
RowBoundingBox(row) ==
    [min_lat |-> row.min_lat, min_lon |-> row.min_lon,
     max_lat |-> row.max_lat, max_lon |-> row.max_lon]

RowStatistics(row) ==
    [mean |-> row.ndvi_mean, min |-> row.ndvi_min, max |-> row.ndvi_max,
     std |-> row.ndvi_std, valid_pixels |-> row.valid_pixels,
     total_pixels |-> row.total_pixels]

\* C24: in the GET /api/ndvi handler an NDVI result is persisted only after
\* validation, fetch, image encoding and statistics have all succeeded: a
\* request that ends in an error adds no row to the store, and a successful
\* request adds exactly one row, whose bounding box and statistics equal
\* those returned to the caller.
C24_PersistedOnlyOnSuccess ==
    [][(ndvi_request = NoRequest /\ ndvi_request'.handler = "main.get_ndvi_analysis") =>
          LET response == ndvi_request'.response
          IN  IF response.status_code = 200
              THEN /\ Len(db') = Len(db) + 1
                   /\ SubSeq(db', 1, Len(db)) = db
                   /\ db'[Len(db')].id = response.body.id
                   /\ RowBoundingBox(db'[Len(db')]) = response.body.bounding_box
                   /\ RowStatistics(db'[Len(db')]) = response.body.statistics
              ELSE db' = db
      ]_vars

\* A second successful request: the store holds two rows and the last one
\* is the result just returned.
C24_Witness ==
    /\ Served
    /\ ndvi_request.handler = "main.get_ndvi_analysis"
    /\ ndvi_request.response.status_code = 200
    /\ Len(db) = 2
    /\ db[2].id = ndvi_request.response.body.id
    /\ RowStatistics(db[2]) = ndvi_request.response.body.statistics

\* A request that failed in the fetch after a successful one: the store
\* still holds the one row.
C24_WitnessError ==
    /\ Served
    /\ ndvi_request.handler = "main.get_ndvi_analysis"
    /\ ndvi_request.provider = "error"
    /\ ndvi_request.response.status_code = 500
    /\ Len(db) = 1

-----------------------------------------------------------------------------
(* Properties of the token cache over sequential calls *)

-----------------------------------------------------------------------------
(* Properties of the order of the bounding-box checks *)

LatitudeOutOfRange(b) ==
    b.min_lat < -90 \/ b.min_lat > 90 \/ b.max_lat < -90 \/ b.max_lat > 90

LongitudeOutOfRange(b) ==
    b.min_lon < -180 \/ b.min_lon > 180 \/ b.max_lon < -180 \/ b.max_lon > 180

\* C26: the bounding-box checks of main.py run in a fixed order (ordering,
\* then latitude range, then longitude range) and stop at the first failure:
\* a box that violates the ordering is reported with the invalid-ordering
\* error even when a coordinate is out of range, and a box that violates both
\* ranges is reported with the latitude error.
C26_ChecksInOrder ==
    (Served /\ ndvi_request.handler = "main.get_ndvi_analysis") =>
        LET b == ndvi_request.bbox
        IN  IF OrderingViolated(b)
            THEN ndvi_request.validation =
                     "Invalid bounding box: min values must be less than max values"
            ELSE IF LatitudeOutOfRange(b)
            THEN ndvi_request.validation = "Latitude must be between -90 and 90"
            ELSE IF LongitudeOutOfRange(b)
            THEN ndvi_request.validation = "Longitude must be between -180 and 180"
            ELSE ndvi_request.validation = "none"

\* The box (95, 5, 10, 15) violates the ordering and the latitude range and
\* has been reported with the invalid-ordering error.
C26_Witness ==
    /\ Served
    /\ ndvi_request.handler = "main.get_ndvi_analysis"
    /\ ndvi_request.bbox = [min_lat |-> 95, min_lon |-> 5, max_lat |-> 10, max_lon |-> 15]
    /\ ndvi_request.validation =
           "Invalid bounding box: min values must be less than max values"

\* The box (10, 15, 95, 200) is ordered and violates both ranges: it has been
\* reported with the latitude error.
C26_WitnessBothRanges ==
    /\ Served
    /\ ndvi_request.handler = "main.get_ndvi_analysis"
    /\ ndvi_request.bbox = [min_lat |-> 10, min_lon |-> 15, max_lat |-> 95, max_lon |-> 200]
    /\ ndvi_request.validation = "Latitude must be between -90 and 90"

-----------------------------------------------------------------------------
(* Properties of the returned HealthPrediction *)

\* C27: in every non-fallback HealthPrediction the returned fields are
\* mutually consistent: the two escalation messages are present if and only
\* if the returned (rounded) health_score is below 70, and the returned
\* confidence equals min(95, max(70, returned health_score)).
C27_ReturnedFieldsConsistent ==
    ComputedHealth =>
        LET value == last.result.value
        IN  /\ (/\ InSeq("Immediate intervention required", value.recommendations)
                /\ InSeq("Increase monitoring frequency", value.recommendations))
                   <=> value.health_score < 700
            /\ value.confidence = Min(950, Max(700, value.health_score))

=============================================================================
